---- MODULE Spec2Model ----
(***************************************************************************)
(* A state-machine model of the multi-armed-bandit notebook                *)
(* (src/Multi-armed-Bandits.ipynb): the FruitSlotMachine environment, the  *)
(* AbstractMABAlgorithm.run loop and the five policies built on it.        *)
(*                                                                         *)
(* Probabilities are held in tenths (Scale = 10 stands for 1.0), running   *)
(* mean estimates as exact fractions <<numerator, denominator>>, and the   *)
(* square-root scores of UCB and BayesianUCB in fixed point.               *)
(***************************************************************************)
EXTENDS Integers, Sequences, FiniteSets, TLC

\* FruitSlotMachine.__init__: super().__init__("Fruit Machine", 3)
num_arms == 3

\* BayesianUCB.__init__: sigma=3
sigma == 3

\* One unit of probability: np.random.random() returns a value in [0, 1),
\* modelled as one of the tenths 0 .. Scale-1.
Scale == 10

\* Resolution of UCB's fixed-point scores (four decimal digits).
Fix == 10000

\* Resolution of BayesianUCB's fixed-point scores: 2520 = lcm(1 .. 10), so
\* that every posterior mean a / (a + b) and every rational standard
\* deviation the model reaches is held exactly and equal scores stay equal.
BetaFix == 2520

\* ---- bounds of the exploration ----
\* total number of rounds one agent plays, over all its run() calls
MaxRounds == 4
\* the same, for an agent whose choice of arm is random (EpsilonGreedy
\* with epsilon > 0, ThompsonSamping)
MaxRandomRounds == 2
\* largest num_iterations handed to one run() call
MaxIter == 2

Arms == 0 .. (num_arms - 1)

\* The values np.random.random() can return, in tenths.
Uniform01 == 0 .. (Scale - 1)

\* The values np.random.random() takes when the machine randomizes its own
\* win rates (mode 2), in tenths.
RandomRates == {2, 8}

\* The values one np.random.beta draw takes, in tenths (a Beta sample lies
\* strictly between 0 and 1 whatever its parameters).
BetaLevels == {2, 7}

\* Explicit distributions handed to FruitSlotMachine(distribution):
\* the notebook's [0.3, 0.5, 0.7], a vector with an entry above 1, and
\* vectors of the wrong length.
ExplicitDistributions ==
    { <<3, 5, 7>>, <<3, 15, 7>>, <<5, 5>>, <<3, 5, 7, 9>> }

\* Arguments the driver hands to get_reward directly.
ProbeArgs == (0 - num_arms - 1) .. num_arms

\* Arguments the driver hands to run().
IterArgs == (0 - 1) .. MaxIter

\* Constructor arguments of the policies.
InitialProbabilities == { <<1, 1>>, <<1, 2>> }
Epsilons == {0, 5, 12}
InitialCounts == { <<1, 1>>, <<2, 2>> }

Policies ==
    {"UniformExploration", "EpsilonGreedy", "UCB", "BayesianUCB", "ThompsonSamping"}
MeanPolicies == {"UniformExploration", "EpsilonGreedy", "UCB"}
BetaPolicies == {"BayesianUCB", "ThompsonSamping"}

VARIABLES
    envState,                \* "none", "ok" or "AssertionError"
    distribution,            \* FruitSlotMachine.distribution (a Python list)
    best_cumulative_reward,  \* FruitSlotMachine.best_cumulative_reward
    policy,                  \* class of the agent, "none" before it is built
    cfg,                     \* constructor arguments kept by the agent
    N_a,                     \* AbstractMABAlgorithm.N_a
    regret,                  \* AbstractMABAlgorithm.regret
    regret_history,          \* AbstractMABAlgorithm.regret_history
    probabilities,           \* running-mean estimates (fractions)
    a,                       \* Beta parameter a per arm
    b,                       \* Beta parameter b per arm
    iteration,               \* self.iteration, -1 while the attribute is unset
    num_iterations,          \* argument of the run() call in progress, else 0
    pc,                      \* position inside run(), "idle" outside of it
    arm_choice,              \* local of run(): the arm chosen this round
    reward,                  \* local of run(): the reward observed this round
    t,                       \* local of UCB.choose_arm, 0 when not computed
    lastCall,                \* the driver's latest call and how it ended
    rounds,                  \* history: rounds finished by the agent so far
    runStart,                \* history: value of rounds when the latest run()
                             \* call that plays a round began
    ownArgmax,               \* history: argmax of the arms' own Beta draws,
                             \* kept while choose_arm's result is handed over
    wins,                    \* history: reward-1 outcomes observed per arm
    updates                  \* history: calls of update_belief so far

vars == << envState, distribution, best_cumulative_reward, policy, cfg, N_a,
           regret, regret_history, probabilities, a, b, iteration,
           num_iterations, pc, arm_choice, reward, t, lastCall, rounds,
           runStart, ownArgmax, wins, updates >>

envVars == << envState, distribution, best_cumulative_reward >>
agentVars == << policy, cfg, N_a, regret, regret_history, probabilities, a, b >>
frameVars == << iteration, num_iterations, pc, arm_choice, reward, t >>

\* ------------------------------------------------------------------------
\* Helpers
\* ------------------------------------------------------------------------

NoValue == 0 - 1

\* Python's list indexing list[i]: a negative index counts from the end, an
\* index outside -len .. len-1 raises IndexError.
ListHas(list, i) == (0 - Len(list)) <= i /\ i < Len(list)
ListGet(list, i) == IF i >= 0 THEN list[i + 1] ELSE list[Len(list) + i + 1]

\* Python's max() over a non-empty list.
MaxOf(list) ==
    CHOOSE m \in {list[i] : i \in 1 .. Len(list)} :
        \A i \in 1 .. Len(list) : list[i] <= m

\* np.argmax / np.argmin over an integer array: the first index holding the
\* largest / smallest value.
Argmax(f) ==
    CHOOSE i \in Arms :
        /\ \A j \in Arms : f[j] <= f[i]
        /\ \A j \in Arms : j < i => f[j] < f[i]

Argmin(f) ==
    CHOOSE i \in Arms :
        /\ \A j \in Arms : f[i] <= f[j]
        /\ \A j \in Arms : j < i => f[i] < f[j]

\* Fractions <<n, d>> with d > 0, kept in lowest terms.
RECURSIVE Gcd(_, _)
Gcd(x, y) == IF y = 0 THEN x ELSE Gcd(y, x % y)

Abs(x) == IF x < 0 THEN 0 - x ELSE x

Norm(n, d) ==
    LET g == Gcd(Abs(n), d)
    IN  IF n = 0 THEN <<0, 1>> ELSE <<n \div g, d \div g>>

FracLess(p, q) == p[1] * q[2] < q[1] * p[2]

\* ndarray.argmax() over the array of estimates.
ArgmaxFrac(f) ==
    CHOOSE i \in Arms :
        /\ \A j \in Arms : ~ FracLess(f[i], f[j])
        /\ \A j \in Arms : j < i => FracLess(f[j], f[i])

\* Integer square root (floor), by bisection.
RECURSIVE IsqrtIn(_, _, _)
IsqrtIn(x, lo, hi) ==
    IF lo >= hi THEN lo
    ELSE LET mid == (lo + hi + 1) \div 2
         IN  IF mid * mid <= x THEN IsqrtIn(x, mid, hi)
             ELSE IsqrtIn(x, lo, mid - 1)

Isqrt(x) == IsqrtIn(x, 0, 46340)

\* np.log(t) for the round indices the model reaches, in units of 1/Fix.
LogFix == << 0, 6931, 10986, 13863, 16094, 17918, 19459, 20794, 21972, 23026 >>

RECURSIVE SumTo(_, _)
SumTo(f, k) == IF k < 0 THEN 0 ELSE f[k] + SumTo(f, k - 1)

\* np.sum over an array indexed by the arms.
SumArms(f) == SumTo(f, num_arms - 1)

\* The constructor arguments an agent was built with.
NoCfg ==
    [epsilon |-> NoValue, initial_probability |-> <<0, 1>>,
     initial_a |-> NoValue, initial_b |-> NoValue]

\* ------------------------------------------------------------------------
\* The environment: FruitSlotMachine
\* ------------------------------------------------------------------------

Init ==
    /\ envState = "none"
    /\ distribution = << >>
    /\ best_cumulative_reward = 0
    /\ policy = "none"
    /\ cfg = NoCfg
    /\ N_a = [k \in Arms |-> 0]
    /\ regret = 0
    /\ regret_history = << >>
    /\ probabilities = [k \in Arms |-> <<0, 1>>]
    /\ a = [k \in Arms |-> 0]
    /\ b = [k \in Arms |-> 0]
    /\ iteration = NoValue
    /\ num_iterations = 0
    /\ pc = "idle"
    /\ arm_choice = NoValue
    /\ reward = NoValue
    /\ t = 0
    /\ lastCall = [op |-> "none", arg |-> 0, raised |-> "none", value |-> NoValue]
    /\ rounds = 0
    /\ runStart = 0
    /\ ownArgmax = NoValue
    /\ wins = [k \in Arms |-> 0]
    /\ updates = 0

\* FruitSlotMachine(distribution), mode 1: the assert on the length is the
\* only check made; the entries are stored as they are.
NewMachine(d) ==
    /\ envState = "none"
    /\ IF Len(d) = num_arms
       THEN /\ envState' = "ok"
            /\ distribution' = d
            /\ best_cumulative_reward' = MaxOf(d)
            /\ lastCall' = [op |-> "FruitSlotMachine", arg |-> d,
                            raised |-> "none", value |-> NoValue]
       ELSE /\ envState' = "AssertionError"
            /\ UNCHANGED << distribution, best_cumulative_reward >>
            /\ lastCall' = [op |-> "FruitSlotMachine", arg |-> d,
                            raised |-> "AssertionError", value |-> NoValue]
    /\ UNCHANGED << agentVars, frameVars, rounds, runStart, ownArgmax, wins, updates >>

\* FruitSlotMachine(), mode 2: one np.random.random() per arm.
NewRandomMachine(d) ==
    /\ envState = "none"
    /\ envState' = "ok"
    /\ distribution' = d
    /\ best_cumulative_reward' = MaxOf(d)
    /\ lastCall' = [op |-> "FruitSlotMachine", arg |-> << >>,
                    raised |-> "none", value |-> NoValue]
    /\ UNCHANGED << agentVars, frameVars, rounds, runStart, ownArgmax, wins, updates >>

\* FruitSlotMachine.get_reward(arm_choice) with the uniform draw u.
RewardRaises(arm) == ~ ListHas(distribution, arm)
RewardOf(arm, u) == IF u < ListGet(distribution, arm) THEN 1 ELSE 0

\* The driver calls get_reward itself. The machine never changes, so the
\* calls are explored on the fresh machine, before an agent is built on it.
GetReward(arm, u) ==
    /\ envState = "ok"
    /\ policy = "none"
    /\ lastCall' =
         IF RewardRaises(arm)
         THEN [op |-> "get_reward", arg |-> arm, raised |-> "IndexError",
               value |-> NoValue]
         ELSE [op |-> "get_reward", arg |-> arm, raised |-> "none",
               value |-> RewardOf(arm, u)]
    /\ UNCHANGED << envVars, agentVars, frameVars, rounds, runStart, ownArgmax, wins, updates >>

\* ------------------------------------------------------------------------
\* The agents: AbstractMABAlgorithm and its five subclasses
\* ------------------------------------------------------------------------

\* AbstractMABAlgorithm.__init__
BaseInit ==
    /\ N_a' = [k \in Arms |-> 0]
    /\ regret' = 0
    /\ regret_history' = << 0 >>

Built(name, arg) ==
    /\ lastCall' = [op |-> name, arg |-> arg, raised |-> "none", value |-> NoValue]
    /\ UNCHANGED << envVars, frameVars, rounds, runStart, ownArgmax, wins, updates >>

NewUniformExploration(p0) ==
    /\ envState = "ok" /\ policy = "none"
    /\ BaseInit
    /\ policy' = "UniformExploration"
    /\ probabilities' = [k \in Arms |-> p0]
    /\ cfg' = [NoCfg EXCEPT !.initial_probability = p0]
    /\ UNCHANGED << a, b >>
    /\ Built("UniformExploration", 0)

\* EpsilonGreedy.__init__: assert epsilon is None or 0 <= epsilon <= 1.0
NewEpsilonGreedy(eps, p0) ==
    /\ envState = "ok" /\ policy = "none"
    /\ IF 0 <= eps /\ eps <= Scale
       THEN /\ BaseInit
            /\ policy' = "EpsilonGreedy"
            /\ probabilities' = [k \in Arms |-> p0]
            /\ cfg' = [NoCfg EXCEPT !.epsilon = eps, !.initial_probability = p0]
            /\ UNCHANGED << a, b >>
            /\ Built("EpsilonGreedy", eps)
       ELSE /\ lastCall' = [op |-> "EpsilonGreedy", arg |-> eps,
                            raised |-> "AssertionError", value |-> NoValue]
            /\ UNCHANGED << envVars, agentVars, frameVars, rounds, runStart, ownArgmax, wins, updates >>

NewUCB(p0) ==
    /\ envState = "ok" /\ policy = "none"
    /\ BaseInit
    /\ policy' = "UCB"
    /\ probabilities' = [k \in Arms |-> p0]
    /\ cfg' = [NoCfg EXCEPT !.initial_probability = p0]
    /\ UNCHANGED << a, b >>
    /\ Built("UCB", 0)

NewBayesianUCB(ia, ib) ==
    /\ envState = "ok" /\ policy = "none"
    /\ BaseInit
    /\ policy' = "BayesianUCB"
    /\ a' = [k \in Arms |-> ia]
    /\ b' = [k \in Arms |-> ib]
    /\ cfg' = [NoCfg EXCEPT !.initial_a = ia, !.initial_b = ib]
    /\ UNCHANGED probabilities
    /\ Built("BayesianUCB", 0)

NewThompsonSamping(ia, ib) ==
    /\ envState = "ok" /\ policy = "none"
    /\ BaseInit
    /\ policy' = "ThompsonSamping"
    /\ a' = [k \in Arms |-> ia]
    /\ b' = [k \in Arms |-> ib]
    /\ cfg' = [NoCfg EXCEPT !.initial_a = ia, !.initial_b = ib]
    /\ UNCHANGED probabilities
    /\ Built("ThompsonSamping", 0)

\* ---- run(num_iterations) ----

\* run(n): `for self.iteration in range(n)`. An empty range (n <= 0) runs
\* the body zero times and assigns nothing, self.iteration included.
RandomChoice ==
    \/ policy = "ThompsonSamping"
    \/ policy = "EpsilonGreedy" /\ cfg.epsilon > 0

RoundBound == IF RandomChoice THEN MaxRandomRounds ELSE MaxRounds

Run(n) ==
    /\ policy # "none"
    /\ pc = "idle"
    /\ rounds + n <= RoundBound
    /\ lastCall' = [op |-> "run", arg |-> n, raised |-> "none", value |-> NoValue]
    /\ IF n > 0
       THEN /\ iteration' = 0
            /\ num_iterations' = n
            /\ pc' = "choose"
            /\ runStart' = rounds
            /\ UNCHANGED << arm_choice, reward, t >>
       ELSE UNCHANGED << frameVars, runStart >>
    /\ UNCHANGED << envVars, agentVars, rounds, ownArgmax, wins, updates >>

\* The arm is handed to run(); the round goes on to get_reward.
Chose(arm) ==
    /\ arm_choice' = arm
    /\ pc' = "reward"
    /\ UNCHANGED << envVars, agentVars, iteration, num_iterations, reward,
                    lastCall, rounds, runStart, wins, updates >>

\* A slip in UniformExploration.choose_arm: np.argmax for np.argmin.
UniformArmMost == Argmax(N_a)

\* UniformExploration.choose_arm
UniformArm == Argmin(N_a)

ChooseUniform ==
    /\ pc = "choose" /\ policy = "UniformExploration"
    /\ Chose(UniformArm)
    /\ UNCHANGED << t, ownArgmax >>

\* EpsilonGreedy.choose_arm with the uniform draw u and, on the random
\* branch, the np.random.randint(0, num_arms) draw r.
\* A slip in the comparison: <= for <.
TakesRandomArmInclusive(u) == u <= cfg.epsilon

TakesRandomArm(u) == u < cfg.epsilon
GreedyArm == ArgmaxFrac(probabilities)

ChooseEpsilonGreedy(u, r) ==
    /\ pc = "choose" /\ policy = "EpsilonGreedy"
    /\ Chose(IF TakesRandomArm(u) THEN r ELSE GreedyArm)
    /\ UNCHANGED << t, ownArgmax >>

\* UCB.choose_arm: t = self.iteration + 1 and
\* UCB = probabilities + sqrt(2 * log(t) / (N_a + 1)), in units of 1/Fix.
\* A different reading of t: one more than all the pulls counted so far.
RoundIndexOverall == SumArms(N_a) + 1

RoundIndex == iteration + 1

UCBScore(tt) ==
    [k \in Arms |->
        (probabilities[k][1] * Fix) \div probabilities[k][2]
        + Isqrt((2 * LogFix[tt] * Fix) \div (N_a[k] + 1))]

ChooseUCB ==
    /\ pc = "choose" /\ policy = "UCB"
    /\ t' = RoundIndex
    /\ Chose(Argmax(UCBScore(RoundIndex)))
    /\ UNCHANGED ownArgmax

\* BayesianUCB.getBetaStdDev times sigma, and choose_arm's score
\* a / (a + b) + sigma * stddev, in units of 1/BetaFix.
BetaStdDevSigma(k) ==
    Isqrt((sigma * sigma * a[k] * b[k] * BetaFix * BetaFix)
          \div ((a[k] + b[k]) * (a[k] + b[k]) * (a[k] + b[k] + 1)))

BayesScore ==
    [k \in Arms |-> (a[k] * BetaFix) \div (a[k] + b[k]) + BetaStdDevSigma(k)]

ChooseBayesianUCB ==
    /\ pc = "choose" /\ policy = "BayesianUCB"
    /\ Chose(Argmax(BayesScore))
    /\ UNCHANGED << t, ownArgmax >>

\* ThompsonSamping.choose_arm: for each arm i, np.random.beta(self.a, self.b)
\* draws one value PER ARM (the arguments are the whole arrays) and .sum()
\* adds them up; draws[i][k] is the value drawn from Beta(a[k], b[k]) in
\* the i-th pass of the loop.
ThompsonSamples(draws) == [i \in Arms |-> SumArms(draws[i])]

ChooseThompson(draws) ==
    /\ pc = "choose" /\ policy = "ThompsonSamping"
    /\ Chose(Argmax(ThompsonSamples(draws)))
    /\ ownArgmax' = Argmax([i \in Arms |-> draws[i][i]])
    /\ UNCHANGED t

\* reward = self.MABproblem.get_reward(arm_choice)
ObserveReward(u) ==
    /\ pc = "reward"
    /\ ~ RewardRaises(arm_choice)
    /\ reward' = RewardOf(arm_choice, u)
    /\ pc' = "count"
    /\ ownArgmax' = NoValue
    /\ wins' = [wins EXCEPT ![arm_choice] = @ + RewardOf(arm_choice, u)]
    /\ UNCHANGED << envVars, agentVars, iteration, num_iterations, arm_choice,
                    t, lastCall, rounds, runStart, updates >>

\* A slip in the increment: the count goes up by two.
CountedTwice(arm) == [N_a EXCEPT ![arm] = @ + 2]

\* A slip in run(): the increment is left until after update_belief.
CountedLater(arm) == N_a

\* self.N_a[arm_choice] += 1
Counted(arm) == [N_a EXCEPT ![arm] = @ + 1]

IncrementCount ==
    /\ pc = "count"
    /\ N_a' = Counted(arm_choice)
    /\ pc' = "belief"
    /\ UNCHANGED << envVars, policy, cfg, regret, regret_history, probabilities,
                    a, b, iteration, num_iterations, arm_choice, reward, t,
                    lastCall, rounds, runStart, ownArgmax, wins, updates >>

\* A slip in update_belief: the initial estimate is weighed as one more
\* observation, the divisor being N_a[arm] + 1.
RunningMeanPrior(p, r, n) ==
    Norm(p[1] * (n + 1) + r * p[2] - p[1], p[2] * (n + 1))

\* update_belief of UniformExploration, EpsilonGreedy and UCB:
\* probabilities[arm] += (reward - probabilities[arm]) / N_a[arm]
RunningMean(p, r, n) == Norm(p[1] * n + r * p[2] - p[1], p[2] * n)

UpdateMeanBelief ==
    /\ pc = "belief" /\ policy \in MeanPolicies
    /\ probabilities' =
         [probabilities EXCEPT
            ![arm_choice] = RunningMean(@, reward, N_a[arm_choice])]
    /\ pc' = "regret"
    /\ updates' = updates + 1
    /\ UNCHANGED << envVars, policy, cfg, N_a, regret, regret_history, a, b,
                    iteration, num_iterations, arm_choice, reward, t,
                    lastCall, rounds, runStart, ownArgmax, wins >>

\* A slip in update_belief: the reward is added to every arm's a.
BetaAEveryArm(arm, r) == [k \in Arms |-> a[k] + r]

\* update_belief of BayesianUCB and ThompsonSamping:
\* a[arm] += reward; b[arm] += 1 - reward
BetaA(arm, r) == [a EXCEPT ![arm] = @ + r]
\* A slip in update_belief: b grows by the reward, like a.
BetaBByReward(arm, r) == [b EXCEPT ![arm] = @ + r]

BetaB(arm, r) == [b EXCEPT ![arm] = @ + (1 - r)]

UpdateBetaBelief ==
    /\ pc = "belief" /\ policy \in BetaPolicies
    /\ a' = BetaA(arm_choice, reward)
    /\ b' = BetaB(arm_choice, reward)
    /\ pc' = "regret"
    /\ updates' = updates + 1
    /\ UNCHANGED << envVars, policy, cfg, N_a, regret, regret_history,
                    probabilities, iteration, num_iterations, arm_choice,
                    reward, t, lastCall, rounds, runStart, ownArgmax, wins >>

\* update_regret(arm_choice), then the head of the for loop: the next value
\* of range(num_iterations) is bound to self.iteration, or run() returns.
\* A slip in update_regret: the difference taken the other way round.
RegretOfSwapped(arm) == ListGet(distribution, arm) - best_cumulative_reward

RegretOf(arm) == best_cumulative_reward - ListGet(distribution, arm)

UpdateRegret ==
    /\ pc = "regret"
    /\ regret' = regret + RegretOf(arm_choice)
    /\ regret_history' = Append(regret_history, regret')
    /\ rounds' = rounds + 1
    /\ IF iteration + 1 < num_iterations
       THEN /\ iteration' = iteration + 1
            /\ pc' = "choose"
            /\ UNCHANGED num_iterations
       ELSE /\ pc' = "idle"
            /\ num_iterations' = 0
            /\ UNCHANGED iteration
    /\ arm_choice' = NoValue
    /\ reward' = NoValue
    /\ t' = 0
    /\ UNCHANGED << envVars, policy, cfg, N_a, probabilities, a, b,
                    lastCall, runStart, ownArgmax, wins, updates >>

Next ==
    \/ \E d \in ExplicitDistributions : NewMachine(d)
    \/ \E d \in [1 .. num_arms -> RandomRates] : NewRandomMachine(d)
    \/ \E arm \in ProbeArgs, u \in Uniform01 : GetReward(arm, u)
    \/ \E p0 \in InitialProbabilities : NewUniformExploration(p0)
    \/ \E eps \in Epsilons, p0 \in InitialProbabilities : NewEpsilonGreedy(eps, p0)
    \/ \E p0 \in InitialProbabilities : NewUCB(p0)
    \/ \E c \in InitialCounts : NewBayesianUCB(c[1], c[2])
    \/ \E c \in InitialCounts : NewThompsonSamping(c[1], c[2])
    \/ \E n \in IterArgs : Run(n)
    \/ ChooseUniform
    \/ \E u \in Uniform01, r \in Arms : ChooseEpsilonGreedy(u, r)
    \/ ChooseUCB
    \/ ChooseBayesianUCB
    \/ \E draws \in [Arms -> [Arms -> BetaLevels]] : ChooseThompson(draws)
    \/ \E u \in Uniform01 : ObserveReward(u)
    \/ IncrementCount
    \/ UpdateMeanBelief
    \/ UpdateBetaBelief
    \/ UpdateRegret

Spec == Init /\ [][Next]_vars

\* ------------------------------------------------------------------------
\* Properties
\* ------------------------------------------------------------------------

HasAgent == policy # "none"

\* Between the increment of N_a and the end of the round, the round in
\* progress is counted in N_a and not yet in rounds.
CountedAhead == IF pc \in {"belief", "regret"} THEN 1 ELSE 0

MaxCount == CHOOSE m \in {N_a[k] : k \in Arms} : \A k \in Arms : N_a[k] <= m
MinCount == CHOOSE m \in {N_a[k] : k \in Arms} : \A k \in Arms : m <= N_a[k]

\* C1, state part: at every round boundary the pull counts add up to the
\* number of rounds the agent has played (and inside a round, to that number
\* plus the pull already counted).
C1_SumIsRounds ==
    HasAgent => SumArms(N_a) = rounds + CountedAhead

\* C1, step part: N_a changes only in the count step of a round, and then
\* exactly one entry grows by exactly 1; every finished round had one such step.
C1_OneIncrement ==
    /\ N_a' # N_a =>
         /\ pc = "count" /\ pc' = "belief"
         /\ \E k \in Arms : N_a' = [N_a EXCEPT ![k] = @ + 1]
    /\ rounds' # rounds => rounds' = rounds + 1 /\ pc = "regret"

\* C1: for every policy, sum(N_a) equals the rounds played at every round
\* boundary, and each round increments exactly one entry of N_a by 1.
C1_PullCounts == [] C1_SumIsRounds /\ [][C1_OneIncrement]_vars

\* C1 witness: an agent back from run() after four rounds spread over
\* several arms.
C1_Witness ==
    /\ HasAgent /\ pc = "idle" /\ rounds = 4
    /\ SumArms(N_a) = 4
    /\ Cardinality({k \in Arms : N_a[k] > 0}) >= 2

\* The regret owed to the pulls counted in N_a, less the pull of a round
\* that has not reached update_regret yet.
RegretOfPulls ==
    SumArms([k \in Arms |-> N_a[k] * (best_cumulative_reward - distribution[k + 1])])
    - (IF pc \in {"belief", "regret"}
       THEN best_cumulative_reward - distribution[arm_choice + 1] ELSE 0)

\* C2: after n rounds regret_history has n+1 entries, starts at 0, never
\* decreases, ends with the cumulative regret, and that regret is the sum
\* over the rounds played of best probability minus the pulled arm's
\* probability.
C2_RegretHistory ==
    HasAgent =>
        /\ Len(regret_history) = rounds + 1
        /\ regret_history[1] = 0
        /\ \A i \in 1 .. Len(regret_history) - 1 :
               regret_history[i] <= regret_history[i + 1]
        /\ regret_history[Len(regret_history)] = regret
        /\ regret = RegretOfPulls

\* C2 witness: two rounds played, the regret grew in both.
C2_Witness ==
    /\ HasAgent /\ pc = "idle" /\ rounds >= 2
    /\ regret_history[1] < regret_history[2]
    /\ regret_history[2] < regret_history[3]
    /\ regret = regret_history[3]

\* C3: UniformExploration pulls the lowest-index arm among the least pulled
\* ones, so the arms are pulled in the order 0, 1, 2, 0, ... and the pull
\* counts never differ by more than 1.
C3_RoundRobin ==
    policy = "UniformExploration" =>
        /\ MaxCount - MinCount <= 1
        /\ pc \in {"reward", "count"} =>
             /\ N_a[arm_choice] = MinCount
             /\ \A j \in Arms : j < arm_choice => N_a[j] > MinCount
             /\ arm_choice = rounds % num_arms

\* C3 witness: the fourth round wrapped around to arm 0.
C3_Witness ==
    /\ policy = "UniformExploration" /\ pc = "idle"
    /\ N_a = [k \in Arms |-> IF k = 0 THEN 2 ELSE 1]

\* C4, state part: with initial_a = initial_b = c, a[k] + b[k] is
\* N_a[k] + 2c for every arm (inside a round, between the increment of N_a
\* and update_belief, the pulled arm's count is one ahead), and both
\* parameters are at least c > 0.
C4_BetaSum ==
    (policy \in BetaPolicies /\ cfg.initial_a = cfg.initial_b) =>
        \A k \in Arms :
            /\ a[k] + b[k] + (IF pc = "belief" /\ k = arm_choice THEN 1 ELSE 0)
                 = N_a[k] + 2 * cfg.initial_a
            /\ a[k] >= cfg.initial_a /\ b[k] >= cfg.initial_b
            /\ cfg.initial_a > 0

\* C4, step part: a belief update adds 1 to exactly one of a[k], b[k] of one
\* arm and nothing to the other.
C4_OneOfTwo ==
    (policy \in BetaPolicies /\ policy' = policy /\ << a', b' >> # << a, b >>) =>
        /\ pc = "belief"
        /\ \E k \in Arms :
              \/ a' = [a EXCEPT ![k] = @ + 1] /\ b' = b
              \/ b' = [b EXCEPT ![k] = @ + 1] /\ a' = a

\* C4: for BayesianUCB and ThompsonSamping built with initial_a = initial_b
\* = c, a[k] + b[k] = N_a[k] + 2c for every arm, each belief update raises
\* exactly one of a[k], b[k] by 1, and both stay >= c > 0.
C4_BetaParameters == [] C4_BetaSum /\ [][C4_OneOfTwo]_vars

\* C4 witness: a Beta agent after two rounds, one won and one lost.
C4_Witness ==
    /\ policy \in BetaPolicies /\ pc = "idle" /\ rounds = 2
    /\ cfg.initial_a = 2
    /\ \E k \in Arms : a[k] > cfg.initial_a
    /\ \E k \in Arms : b[k] > cfg.initial_b

\* C5: ThompsonSamping.choose_arm compares, for each arm, one sample drawn
\* from that arm's own Beta(a[i], b[i]) and returns the lowest-index arm
\* whose sample is largest.
C5_OwnSampleDecides ==
    (policy = "ThompsonSamping" /\ pc = "reward") => arm_choice = ownArgmax

\* C6: EpsilonGreedy built with epsilon = 0 never takes the random branch:
\* whatever the uniform draw, the arm chosen is the lowest-index arm whose
\* estimate is largest.
C6_ZeroEpsilonIsGreedy ==
    (policy = "EpsilonGreedy" /\ cfg.epsilon = 0 /\ pc \in {"reward", "count"}) =>
        /\ \A j \in Arms :
               ~ FracLess(probabilities[arm_choice], probabilities[j])
        /\ \A j \in Arms :
               j < arm_choice =>
                   FracLess(probabilities[j], probabilities[arm_choice])

\* C6 witness: the greedy agent has lost on arm 0 and now picks arm 1.
C6_Witness ==
    /\ policy = "EpsilonGreedy" /\ cfg.epsilon = 0 /\ pc = "reward"
    /\ rounds >= 1
    /\ arm_choice = 1
    /\ FracLess(probabilities[0], probabilities[1])

InUnit(x) == 0 <= x /\ x <= Scale

\* C7: get_reward fails for every arm index outside 0 .. num_arms-1, and
\* returns 0 or 1 for every index inside it.
C7_RewardIndexChecked ==
    lastCall.op = "get_reward" =>
        IF lastCall.arg \in Arms
        THEN lastCall.raised = "none" /\ lastCall.value \in {0, 1}
        ELSE lastCall.raised # "none"

\* C8: a machine built from an explicit vector of the wrong length or with
\* an entry outside [0, 1] fails at construction; no machine holding such a
\* vector exists or is played on.
C8_BadVectorRejected ==
    /\ (lastCall.op = "FruitSlotMachine" /\ lastCall.arg # << >>) =>
          \/ lastCall.raised # "none"
          \/ /\ Len(lastCall.arg) = num_arms
             /\ \A i \in 1 .. Len(lastCall.arg) : InUnit(lastCall.arg[i])
    /\ envState = "ok" =>
          /\ Len(distribution) = num_arms
          /\ \A i \in 1 .. Len(distribution) : InUnit(distribution[i])

\* C9: run() with a negative num_iterations fails at the call.
C9_NegativeRunRaises ==
    (lastCall.op = "run" /\ lastCall.arg < 0) => lastCall.raised # "none"

\* C10 as stated: at every call of UCB.choose_arm the round index t is one
\* more than the total number of rounds the agent has played, 1 + sum(N_a).
C10_IndexIsOverall ==
    (policy = "UCB" /\ pc = "reward") => t = 1 + SumArms(N_a)

\* C10 as amended: t is the 1-indexed number of the round about to be
\* played within the current run() call, one more than the rounds that call
\* has played; it is 1 + sum(N_a) as long as no earlier run() call of the
\* agent played a round.
C10_IndexIsPerRun ==
    (policy = "UCB" /\ pc = "reward") =>
        /\ t = 1 + (rounds - runStart)
        /\ runStart = 0 => t = 1 + SumArms(N_a)

\* C10 witness: the second round of a later run() call, where t = 2 and
\* three rounds are already played.
C10_Witness ==
    /\ policy = "UCB" /\ pc = "reward"
    /\ runStart = 2 /\ rounds = 3
    /\ t = 2 /\ SumArms(N_a) = 3

\* The estimate of the arm of the round, before and after a step.
EstimateNow == probabilities[arm_choice]
EstimateNext == probabilities'[arm_choice]

\* C11, state part: when update_belief of a running-mean policy is about to
\* be called, the count of the chosen arm already includes this round's
\* pull, so the divisor is at least 1.
C11_DivisorCounted ==
    (pc = "belief" /\ policy \in MeanPolicies) => N_a[arm_choice] >= 1

\* C11, step part: a round walks through choose arm, observe reward,
\* increment N_a[arm], update belief, update regret in this order and skips
\* none; N_a grows before the belief moves, the belief moves before the
\* regret does, and the running mean divides by the count as incremented.
C11_RoundSteps ==
    /\ pc = "idle" => pc' \in {"idle", "choose"}
    /\ pc = "choose" =>
         /\ pc' = "reward" /\ arm_choice' \in Arms
         /\ UNCHANGED << N_a, probabilities, a, b, regret >>
    /\ pc = "reward" =>
         /\ pc' = "count" /\ reward' \in {0, 1}
         /\ UNCHANGED << arm_choice, N_a, probabilities, a, b, regret >>
    /\ pc = "count" =>
         /\ pc' = "belief"
         /\ N_a'[arm_choice] = N_a[arm_choice] + 1
         /\ UNCHANGED << arm_choice, reward, probabilities, a, b, regret >>
    /\ pc = "belief" =>
         /\ pc' = "regret"
         /\ UNCHANGED << arm_choice, reward, N_a, regret >>
         /\ policy \in MeanPolicies =>
              EstimateNext[1] * EstimateNow[2] * N_a[arm_choice] =
                EstimateNext[2] * (EstimateNow[1] * (N_a[arm_choice] - 1)
                                     + reward * EstimateNow[2])
    /\ pc = "regret" =>
         /\ pc' \in {"choose", "idle"}
         /\ Len(regret_history') = Len(regret_history) + 1
         /\ UNCHANGED << N_a, probabilities, a, b >>

\* C11: within every round the steps happen in the order choose arm, observe
\* reward, increment N_a[arm], update belief, update regret, so at every call
\* of update_belief of UniformExploration, EpsilonGreedy and UCB the divisor
\* N_a[arm_choice] is the count after the increment and is never zero.
C11_OrderedRound == [] C11_DivisorCounted /\ [][C11_RoundSteps]_vars

\* C11 witness: update_belief of a running-mean policy about to be called on
\* the first pull of an arm, whose count was 0 before this round's increment.
C11_Witness ==
    /\ policy \in MeanPolicies /\ pc = "belief"
    /\ N_a[arm_choice] = 1
    /\ rounds >= 1

\* The belief of arm k as the constructor of the policy left it.
HoldsInitialBelief(k) ==
    IF policy \in MeanPolicies
    THEN probabilities[k] = cfg.initial_probability
    ELSE a[k] = cfg.initial_a /\ b[k] = cfg.initial_b

\* C12, state part: update_belief has been called once for every finished
\* round (and once more when the round in progress is past it), and an arm
\* that was never pulled still holds its initial belief.
C12_OncePerRound ==
    HasAgent =>
        /\ updates = rounds + (IF pc = "regret" THEN 1 ELSE 0)
        /\ \A k \in Arms : N_a[k] = 0 => HoldsInitialBelief(k)

\* C12, step part: update_belief changes at most the belief entry of the
\* chosen arm and leaves the other arms' entries, the pull counts, the regret
\* state and the machine alone; no other step of a round touches a belief.
C12_OnlyChosenArm ==
    /\ updates' # updates => pc = "belief" /\ updates' = updates + 1
    /\ pc = "belief" =>
         /\ updates' = updates + 1
         /\ \A k \in Arms \ {arm_choice} :
               /\ probabilities'[k] = probabilities[k]
               /\ a'[k] = a[k]
               /\ b'[k] = b[k]
         /\ UNCHANGED << N_a, regret, regret_history >>
         /\ UNCHANGED << distribution, best_cumulative_reward >>
    /\ (policy' = policy /\ << probabilities', a', b' >> # << probabilities, a, b >>)
         => pc = "belief"

\* C12: for every policy, update_belief(arm, reward) is applied exactly once
\* per round and changes only the belief entry of the chosen arm: the other
\* arms' entries, the pull counts, the regret state and the machine's
\* distribution and best probability stay as they are, so an arm that was
\* never pulled still holds its initial belief.
C12_BeliefFrame == [] C12_OncePerRound /\ [][C12_OnlyChosenArm]_vars

\* C12 witness: a Beta policy just past update_belief in its second round,
\* the chosen arm's pair moved off its initial value while another arm has
\* never been pulled.
C12_Witness ==
    /\ policy \in BetaPolicies /\ pc = "regret"
    /\ updates = 2 /\ rounds = 1
    /\ a[arm_choice] + b[arm_choice] > cfg.initial_a + cfg.initial_b
    /\ \E k \in Arms : N_a[k] = 0 /\ HoldsInitialBelief(k)

\* Inside a round the pull of the chosen arm is counted in N_a (from the
\* increment on) and its reward in wins (from get_reward on) before
\* update_belief has folded it into the estimate.
CountPending(k) == IF k = arm_choice /\ pc = "belief" THEN 1 ELSE 0
WinPending(k) == IF k = arm_choice /\ pc \in {"count", "belief"} THEN reward ELSE 0

\* C13: for UniformExploration, EpsilonGreedy and UCB, in exact arithmetic,
\* every arm k with N_a[k] >= 1 has estimate[k] * N_a[k] equal to the number
\* of reward-1 outcomes observed on arm k, whatever initial_probability was
\* configured (inside a round, for the pulls and rewards update_belief has
\* already been given).
C13_EmpiricalFraction ==
    policy \in MeanPolicies =>
        \A k \in Arms :
            N_a[k] - CountPending(k) >= 1 =>
                /\ probabilities[k][1] * (N_a[k] - CountPending(k))
                     = (wins[k] - WinPending(k)) * probabilities[k][2]
                /\ probabilities[k]
                     = Norm(wins[k] - WinPending(k), N_a[k] - CountPending(k))

\* C13 witness: an agent built with initial_probability 1/2, back from
\* run(), with an arm pulled twice and rewarded twice (estimate 1) and an
\* arm pulled and never rewarded (estimate 0).
C13_Witness ==
    /\ policy \in MeanPolicies /\ pc = "idle"
    /\ cfg.initial_probability = <<1, 2>>
    /\ \E k \in Arms : N_a[k] = 2 /\ wins[k] = 2 /\ probabilities[k] = <<1, 1>>
    /\ \E k \in Arms : N_a[k] >= 1 /\ wins[k] = 0 /\ probabilities[k] = <<0, 1>>

====
